---- MODULE Spec2Model ----
(***************************************************************************)
(* DoomScrollDoctor: the session / nudge state machine of ActivityMonitor  *)
(* (src/src/monitor.py) and its two drivers, the tray application          *)
(* (src/src/tray_app.py) and the console loop of monitor.py's __main__.    *)
(*                                                                         *)
(* Time is the wall clock datetime.now() in whole minutes; the calendar    *)
(* date is now \div MinutesPerDay.  The wall clock normally advances       *)
(* (Tick) and may be set backward (ClockJumpBack: an NTP correction or the *)
(* end of daylight saving time, datetime.now() being naive local time).    *)
(***************************************************************************)
EXTENDS Integers, Sequences, FiniteSets, TLC

(***************************************************************************)
(* Bounds of the model.                                                    *)
(***************************************************************************)
MaxTime == 4
MinutesPerDay == 3
MaxJumps == 1
\* the two-thread specification: polls begun and menu items clicked
MaxPolls == 2
MaxClicks == 1

(***************************************************************************)
(* Program constants.                                                      *)
(***************************************************************************)
\* monitor.py:176  minutes_since_last_nudge = 999 when there was no nudge
NoNudgeDefault == 999
\* monitor.py:193  elif time_remaining <= 10
LowTimeThreshold == 10

\* Optional[...] = None (monitor.py:26-28)
NoSite == "none"
NoTime == -1

(***************************************************************************)
(* Configuration (load_config).  tracked_sites is a dict, iterated in      *)
(* insertion order by detect_current_site.                                 *)
(***************************************************************************)
Sites == {"youtube.com", "reddit.com"}
SiteOrder == <<"youtube.com", "reddit.com">>

\* site.replace('.com', '')
ShortName(site) ==
    CASE site = "youtube.com" -> "youtube"
      [] site = "reddit.com"  -> "reddit"

SiteConfig(limit, interval, block) ==
    [daily_limit |-> limit, nudge_interval |-> interval, hard_block |-> block]

\* The configurations a config.json may hold; the first has the shape of the
\* default (no hard block), scaled to the model's clock.
ConfigSet ==
    { [s \in Sites |-> IF s = "youtube.com" THEN SiteConfig(3, 2, FALSE)
                                             ELSE SiteConfig(14, 3, FALSE)],
      [s \in Sites |-> IF s = "youtube.com" THEN SiteConfig(3, 2, TRUE)
                                             ELSE SiteConfig(14, 3, FALSE)] }

(***************************************************************************)
(* Window titles: a title is modelled by the set of site short names that  *)
(* occur in its lower-cased text.                                          *)
(***************************************************************************)
Titles == SUBSET {ShortName(s) : s \in Sites}
NoTitle == {}

VARIABLES
    tracked_sites,    \* self.tracked_sites
    now,              \* the wall clock, datetime.now()
    current_site,     \* self.current_site
    session_start,    \* self.session_start
    last_nudge_time,  \* self.last_nudge_time
    daily_stats,      \* self.daily_stats
    last_reset,       \* self.last_reset
    running,          \* DoomScrollDoctorTray.running
    app,              \* which driver runs: "init", "tray", "console", "stopped"
    nudge,            \* the value update_session has just returned to the loop
                      \* (NoNudge once another step has been taken)
    summary,          \* the summary just handed to send_daily_summary
                      \* (NoSummary once another step has been taken)
    notified,         \* how send_notification delivered the last poll's event:
                      \* "desktop", "console" (the fallback) or "none"
    \* history variables
    obs,              \* what the last poll saw before it acted
    sess_nudge,       \* when the open session was last nudged
    seen_date,        \* the calendar date the last poll saw
    closed_sum,       \* per site, the durations of the sessions closed since a
                      \* poll last saw the date change
    unclosed,         \* sessions opened and not yet closed
    at_stop,          \* the session that was open when the stop was requested
    jumps,            \* backward clock jumps so far
    probe_failed,     \* the last poll could not read the window title
    \* the two threads of the tray application, statement by statement
    pc,               \* where the monitor_loop thread stands
    detected_site,    \* update_session: detected_site
    duration,         \* _end_session: duration
    ui_pc,            \* where the menu handler on the UI thread stands
    it_left,          \* get_daily_summary: the keys the for loop has yet to visit
    it_keys,          \* the keys the dict held when the for loop began
    it_live,          \* the dict the for loop iterates is still self.daily_stats
    it_dict,          \* that dict, once self.daily_stats was rebound during the loop
    polls,            \* history: polls begun by the monitor_loop thread
    clicks,           \* history: menu items clicked
    torn              \* history: the summary in hand read the totals in the middle
                      \* of a poll's update

prog_vars == <<tracked_sites, now, current_site, session_start, last_nudge_time,
               daily_stats, last_reset, running, app, nudge, summary,
               notified>>
hist_vars == <<obs, sess_nudge, seen_date, closed_sum, unclosed, at_stop, jumps,
               probe_failed>>
thread_vars == <<pc, detected_site, duration, ui_pc, it_left, it_keys, it_live, it_dict,
                 polls, clicks, torn>>
vars == <<prog_vars, hist_vars, thread_vars>>

(***************************************************************************)
(* Pure helpers of monitor.py.                                             *)
(***************************************************************************)
\* datetime.now().date()
Date(t) == t \div MinutesPerDay

\* (a slip: the operands of the subtraction are swapped)
MinutesBetween_Swapped(later, earlier) == earlier - later

\* (a - b).total_seconds() / 60
MinutesBetween(later, earlier) == later - earlier

EmptyStats == [s \in {} |-> 0]

\* self.daily_stats.get(site, 0)
StatsGet(stats, site) == IF site \in DOMAIN stats THEN stats[site] ELSE 0

\* get_active_window_title: "" when win32gui is missing or raises
GetActiveWindowTitle(probe_ok, title) == IF probe_ok THEN title ELSE NoTitle

RECURSIVE FirstMatch(_, _)
FirstMatch(order, title) ==
    IF order = <<>> THEN NoSite
    ELSE IF ShortName(Head(order)) \in title THEN Head(order)
    ELSE FirstMatch(Tail(order), title)

\* detect_current_site
DetectCurrentSite(title) == FirstMatch(SiteOrder, title)

\* (a slip: the totals of the day before are kept when the date changes)
StatsAfterReset_Never(stats, reset, t) == stats

\* update_session, lines 114-117: the daily reset
StatsAfterReset(stats, reset, t) == IF Date(t) # reset THEN EmptyStats ELSE stats
ResetAfterReset(reset, t) == IF Date(t) # reset THEN Date(t) ELSE reset

\* (a slip: the duration replaces the total instead of being added to it)
AddDuration_Overwrite(stats, site, minutes) ==
    [s \in DOMAIN stats \cup {site} |-> IF s = site THEN minutes ELSE stats[s]]

\* _end_session, lines 142-147: fold the session's duration into the totals
AddDuration(stats, site, minutes) ==
    [s \in DOMAIN stats \cup {site} |-> IF s = site THEN StatsGet(stats, site) + minutes
                                        ELSE stats[s]]

NoNudge == [type |-> "NONE", severity |-> "none", message |-> "none", site |-> NoSite,
            session_time |-> 0, total_today |-> 0, limit |-> 0]

\* (a slip: the limit itself does not block yet)
IsBlock_Strict(total_today, site_config) ==
    total_today > site_config.daily_limit /\ site_config.hard_block

\* check_for_nudge, line 168
IsBlock(total_today, site_config) ==
    total_today >= site_config.daily_limit /\ site_config.hard_block

\* check_for_nudge, lines 176-178
MinutesSinceLastNudge(t, last) ==
    IF last # NoTime THEN MinutesBetween(t, last) ELSE NoNudgeDefault

\* (a slip: the time since the last nudge is not looked at)
NudgeGate_NoSpacing(session_minutes, since_last, interval) ==
    session_minutes >= interval

\* check_for_nudge, line 182
NudgeGate(session_minutes, since_last, interval) ==
    session_minutes >= interval /\ since_last >= interval

\* (a slip: exactly ten minutes left is not yet "running low")
Severity_Strict(time_remaining) ==
    IF time_remaining <= 0 THEN "warning"
    ELSE IF time_remaining < LowTimeThreshold THEN "warning"
    ELSE "info"

\* check_for_nudge, lines 185-199
Severity(time_remaining) ==
    IF time_remaining <= 0 THEN "warning"
    ELSE IF time_remaining <= LowTimeThreshold THEN "warning"
    ELSE "info"

\* check_for_nudge, lines 187-202: which message is built
MessageKind(time_remaining) ==
    IF time_remaining <= 0 THEN "exceeded"
    ELSE IF time_remaining <= LowTimeThreshold THEN "running_low"
    ELSE "reminder"

\* check_for_nudge: the event returned (lines 160-214)
NudgeEvent(site, start, last, stats, t) ==
    LET site_config == tracked_sites[site]
        current_session_minutes == MinutesBetween(t, start)
        total_today == StatsGet(stats, site) + current_session_minutes
        daily_limit == site_config.daily_limit
        nudge_interval == site_config.nudge_interval
    IN  IF IsBlock(total_today, site_config)
        THEN \* lines 169-173: type, site and a message that states
             \* total_today and daily_limit
             [type |-> "BLOCK", severity |-> "none", message |-> "limit_reached",
              site |-> site, session_time |-> 0,
              total_today |-> total_today, limit |-> daily_limit]
        ELSE IF NudgeGate(current_session_minutes, MinutesSinceLastNudge(t, last),
                          nudge_interval)
        THEN [type |-> "NUDGE", severity |-> Severity(daily_limit - total_today),
              message |-> MessageKind(daily_limit - total_today), site |-> site,
              session_time |-> current_session_minutes,
              total_today |-> total_today, limit |-> daily_limit]
        ELSE NoNudge

\* (a slip: a BLOCK moves last_nudge_time as a NUDGE does)
NudgeTimeAfter_AnyEvent(event, last, t) == IF event.type # "NONE" THEN t ELSE last

\* check_for_nudge, line 183: last_nudge_time is set only when a NUDGE fires
NudgeTimeAfter(event, last, t) == IF event.type = "NUDGE" THEN t ELSE last

\* (a slip: a total equal to the limit counts as over it)
OverLimit_Inclusive(minutes, limit) == minutes >= limit

\* get_daily_summary, line 229
OverLimit(minutes, limit) == minutes > limit

\* get_daily_summary; the percentage (minutes / limit) * 100 is kept as the
\* fraction <<numerator, denominator>>
GetDailySummary(stats, t) ==
    [date  |-> Date(t),
     sites |-> [s \in DOMAIN stats |->
                  LET limit == tracked_sites[s].daily_limit
                  IN  [time_spent |-> stats[s],
                       limit      |-> limit,
                       percentage |-> IF limit > 0 THEN <<stats[s] * 100, limit>>
                                      ELSE <<0, 1>>,
                       over_limit |-> OverLimit(stats[s], limit)]]]

NoSummary == [date |-> NoTime, sites |-> EmptyStats]

(***************************************************************************)
(* History bookkeeping.                                                    *)
(***************************************************************************)
NoObs == [kind |-> "none", site |-> NoSite, minutes |-> 0, stored |-> 0,
          prev |-> NoTime]
NoStop == [site |-> NoSite, elapsed |-> 0, stored |-> 0]
ZeroSum == [s \in Sites |-> 0]

(***************************************************************************)
(* Initial state: ActivityMonitor.__init__ and DoomScrollDoctorTray.__init__*)
(***************************************************************************)
Init ==
    /\ tracked_sites \in ConfigSet
    /\ now = 0
    /\ current_site = NoSite
    /\ session_start = NoTime
    /\ last_nudge_time = NoTime
    /\ daily_stats = EmptyStats
    /\ last_reset = Date(now)
    /\ running = FALSE
    /\ app = "init"
    /\ nudge = NoNudge
    /\ summary = NoSummary
    /\ notified = "none"
    /\ obs = NoObs
    /\ sess_nudge = NoTime
    /\ seen_date = Date(now)
    /\ closed_sum = ZeroSum
    /\ unclosed = 0
    /\ at_stop = NoStop
    /\ jumps = 0
    /\ probe_failed = FALSE
    /\ pc = "idle"
    /\ detected_site = NoSite
    /\ duration = 0
    /\ ui_pc = "idle"
    /\ it_left = {}
    /\ it_keys = {}
    /\ it_live = TRUE
    /\ it_dict = EmptyStats
    /\ polls = 0
    /\ clicks = 0
    /\ torn = FALSE

(***************************************************************************)
(* The wall clock.                                                         *)
(***************************************************************************)
\* The loop iteration is over (time.sleep) and the notifications are delivered
\* before the clock moves on.
Sleep ==
    /\ nudge' = NoNudge
    /\ summary' = NoSummary
    /\ notified' = "none"
    /\ obs' = NoObs
    /\ probe_failed' = FALSE

Tick ==
    /\ UNCHANGED thread_vars
    /\ app # "stopped"
    /\ now < MaxTime
    /\ now' = now + 1
    /\ Sleep
    /\ UNCHANGED <<tracked_sites, current_site, session_start, last_nudge_time,
                   daily_stats, last_reset, running, app>>
    /\ UNCHANGED <<sess_nudge, seen_date, closed_sum, unclosed, at_stop, jumps>>

ClockJumpBack ==
    /\ UNCHANGED thread_vars
    /\ app # "stopped"
    /\ jumps < MaxJumps
    /\ \E t \in 0 .. now - 1 : now' = t
    /\ jumps' = jumps + 1
    /\ Sleep
    /\ UNCHANGED <<tracked_sites, current_site, session_start, last_nudge_time,
                   daily_stats, last_reset, running, app>>
    /\ UNCHANGED <<sess_nudge, seen_date, closed_sum, unclosed, at_stop>>

(***************************************************************************)
(* Drivers.                                                                *)
(***************************************************************************)
\* DoomScrollDoctorTray.run
TrayRun ==
    /\ UNCHANGED thread_vars
    /\ app = "init"
    /\ app' = "tray"
    /\ running' = TRUE
    /\ UNCHANGED <<tracked_sites, now, current_site, session_start, last_nudge_time,
                   daily_stats, last_reset, nudge, summary, notified>>
    /\ UNCHANGED hist_vars

\* monitor.py __main__: monitor = ActivityMonitor(); while True
ConsoleRun ==
    /\ UNCHANGED thread_vars
    /\ app = "init"
    /\ app' = "console"
    /\ UNCHANGED <<tracked_sites, now, current_site, session_start, last_nudge_time,
                   daily_stats, last_reset, running, nudge, summary, notified>>
    /\ UNCHANGED hist_vars

\* (a slip: the start time is kept when the session ends with no site in front)
StartAfterEnd_Stale(d, t) == t

\* update_session, lines 127-131 after _end_session's line 153: the start time
\* is cleared, and set anew when a tracked site is in front
StartAfterEnd(d, t) == IF d # NoSite THEN t ELSE NoTime

\* closed_sum once the poll at hand has looked at the date
SumAfterRollover == IF Date(now) # seen_date THEN ZeroSum ELSE closed_sum

\* the loop is at the top of an iteration and its condition holds
Polling == pc = "idle" /\ ((app = "tray" /\ running) \/ app = "console")

\* What one poll's look at the foreground window can come to: whether the
\* title could be read, and the site detect_current_site makes of it
Probes ==
    { [ok |-> probe_ok,
       detected |-> DetectCurrentSite(GetActiveWindowTitle(probe_ok, title))] :
      probe_ok \in BOOLEAN, title \in Titles }

\* Notifier.send_notification: a failure of notification.notify is caught and
\* the text is printed to the console instead
SendNotification(notify_ok) == IF notify_ok THEN "desktop" ELSE "console"

\* monitor_loop / __main__: if nudge: self.notifier.send_nudge(nudge)
SendNudge(event, notify_ok) ==
    IF event = NoNudge THEN "none" ELSE SendNotification(notify_ok)

\* (a slip: the failed delivery's exception is not caught and ends the loop)
MonitorLoopAfter_Dies(delivery) == IF delivery = "console" THEN "exited" ELSE "idle"

\* where the loop stands once the event is sent: no exception leaves
\* send_notification, so the loop sleeps and tests its condition again
MonitorLoopAfter(delivery) == "idle"

(***************************************************************************)
(* One poll: update_session (and the send_nudge of its result, which       *)
(* changes no state of the monitor).                                       *)
(***************************************************************************)
\* lines 120-123: a tracked site is d and no session is open
PollOpen(d) ==
    /\ d # NoSite /\ current_site = NoSite
    /\ daily_stats' = StatsAfterReset(daily_stats, last_reset, now)
    /\ last_reset' = ResetAfterReset(last_reset, now)
    /\ current_site' = d
    /\ session_start' = now
    /\ nudge' = NoNudge
    /\ UNCHANGED last_nudge_time
    /\ obs' = [NoObs EXCEPT !.kind = "open", !.site = d]
    /\ sess_nudge' = NoTime
    /\ closed_sum' = SumAfterRollover
    /\ unclosed' = unclosed + 1

\* lines 126-131 and _end_session: the site changed or is gone
PollEnd(d) ==
    /\ current_site # NoSite /\ d # current_site
    /\ LET session_minutes == MinutesBetween(now, session_start)
           stats0 == StatsAfterReset(daily_stats, last_reset, now)
           sum0 == SumAfterRollover
       IN  /\ daily_stats' = AddDuration(stats0, current_site, session_minutes)
           /\ closed_sum' = [sum0 EXCEPT ![current_site] = @ + session_minutes]
           /\ obs' = [NoObs EXCEPT !.kind = IF d # NoSite THEN "switch" ELSE "close",
                                   !.site = current_site, !.minutes = session_minutes,
                                   !.stored = StatsGet(stats0, current_site),
                                   !.prev = sess_nudge]
    /\ last_reset' = ResetAfterReset(last_reset, now)
    /\ current_site' = d
    /\ session_start' = StartAfterEnd(d, now)
    /\ nudge' = NoNudge
    /\ UNCHANGED last_nudge_time
    /\ sess_nudge' = NoTime
    /\ unclosed' = IF d # NoSite THEN unclosed ELSE unclosed - 1

\* lines 134-135 and check_for_nudge: still on the same site
PollOngoing(d) ==
    /\ current_site # NoSite /\ d = current_site
    /\ LET stats0 == StatsAfterReset(daily_stats, last_reset, now)
           event == NudgeEvent(current_site, session_start, last_nudge_time, stats0, now)
       IN  /\ daily_stats' = stats0
           /\ nudge' = event
           /\ last_nudge_time' = NudgeTimeAfter(event, last_nudge_time, now)
           /\ sess_nudge' = NudgeTimeAfter(event, sess_nudge, now)
           /\ obs' = [kind |-> "ongoing", site |-> current_site,
                      minutes |-> MinutesBetween(now, session_start),
                      stored |-> StatsGet(stats0, current_site),
                      prev |-> sess_nudge]
    /\ last_reset' = ResetAfterReset(last_reset, now)
    /\ closed_sum' = SumAfterRollover
    /\ UNCHANGED <<current_site, session_start, unclosed>>

\* (a slip: a poll with nothing in front forgets the last nudge)
PollIdle_Forgets(d) ==
    /\ current_site = NoSite /\ d = NoSite
    /\ daily_stats' = StatsAfterReset(daily_stats, last_reset, now)
    /\ last_reset' = ResetAfterReset(last_reset, now)
    /\ nudge' = NoNudge
    /\ obs' = [NoObs EXCEPT !.kind = "idle"]
    /\ closed_sum' = SumAfterRollover
    /\ last_nudge_time' = NoTime
    /\ UNCHANGED <<current_site, session_start, sess_nudge, unclosed>>

\* line 137: nothing d and nothing open
PollIdle(d) ==
    /\ current_site = NoSite /\ d = NoSite
    /\ daily_stats' = StatsAfterReset(daily_stats, last_reset, now)
    /\ last_reset' = ResetAfterReset(last_reset, now)
    /\ nudge' = NoNudge
    /\ obs' = [NoObs EXCEPT !.kind = "idle"]
    /\ closed_sum' = SumAfterRollover
    /\ UNCHANGED <<current_site, session_start, last_nudge_time, sess_nudge, unclosed>>

UpdateSession(d) ==
    \/ PollOpen(d)
    \/ PollEnd(d)
    \/ PollOngoing(d)
    \/ PollIdle(d)

Poll ==
    /\ Polling
    /\ \E probe \in Probes :
          /\ UpdateSession(probe.detected)
          /\ probe_failed' = ~ probe.ok
    /\ notified' \in {SendNudge(nudge', notify_ok) : notify_ok \in BOOLEAN}
    /\ pc' = MonitorLoopAfter(notified')
    /\ UNCHANGED <<detected_site, duration, ui_pc, it_left, it_keys, it_live, it_dict,
                   polls, clicks, torn>>
    /\ summary' = NoSummary
    /\ seen_date' = Date(now)
    /\ UNCHANGED <<tracked_sites, now, running, app, at_stop, jumps>>

(***************************************************************************)
(* The tray menu and the console's Ctrl+C.                                 *)
(***************************************************************************)
OpenAtStop ==
    IF current_site # NoSite
    THEN [site |-> current_site, elapsed |-> MinutesBetween(now, session_start),
          stored |-> StatsGet(daily_stats, current_site)]
    ELSE NoStop

\* (a slip: the totals are cleared once they have been shown)
ShowStats_Clears ==
    /\ UNCHANGED thread_vars
    /\ notified' = "none"
    /\ app = "tray"
    /\ summary' = GetDailySummary(daily_stats, now)
    /\ daily_stats' = EmptyStats
    /\ nudge' = NoNudge
    /\ obs' = NoObs
    /\ probe_failed' = FALSE
    /\ UNCHANGED <<tracked_sites, now, current_site, session_start, last_nudge_time,
                   last_reset, running, app>>
    /\ UNCHANGED <<sess_nudge, seen_date, closed_sum, unclosed, at_stop, jumps>>

\* DoomScrollDoctorTray.show_stats
ShowStats ==
    /\ UNCHANGED thread_vars
    /\ notified' = "none"
    /\ app = "tray"
    /\ summary' = GetDailySummary(daily_stats, now)
    /\ nudge' = NoNudge
    /\ obs' = NoObs
    /\ probe_failed' = FALSE
    /\ UNCHANGED <<tracked_sites, now, current_site, session_start, last_nudge_time,
                   daily_stats, last_reset, running, app>>
    /\ UNCHANGED <<sess_nudge, seen_date, closed_sum, unclosed, at_stop, jumps>>

\* DoomScrollDoctorTray.quit_app
QuitApp ==
    /\ UNCHANGED thread_vars
    /\ notified' = "none"
    /\ app = "tray"
    /\ summary' = GetDailySummary(daily_stats, now)
    /\ running' = FALSE
    /\ app' = "stopped"
    /\ at_stop' = OpenAtStop
    /\ UNCHANGED <<tracked_sites, now, current_site, session_start, last_nudge_time,
                   daily_stats, last_reset, nudge>>
    /\ UNCHANGED <<obs, sess_nudge, seen_date, closed_sum, unclosed, jumps, probe_failed>>

\* monitor.py __main__: except KeyboardInterrupt
KeyboardInterrupt ==
    /\ UNCHANGED thread_vars
    /\ notified' = "none"
    /\ app = "console"
    /\ summary' = GetDailySummary(daily_stats, now)
    /\ app' = "stopped"
    /\ at_stop' = OpenAtStop
    /\ UNCHANGED <<tracked_sites, now, current_site, session_start, last_nudge_time,
                   daily_stats, last_reset, running, nudge>>
    /\ UNCHANGED <<obs, sess_nudge, seen_date, closed_sum, unclosed, jumps, probe_failed>>

Next ==
    \/ Tick
    \/ ClockJumpBack
    \/ TrayRun
    \/ ConsoleRun
    \/ Poll
    \/ ShowStats
    \/ QuitApp
    \/ KeyboardInterrupt

Spec == Init /\ [][Next]_vars

(***************************************************************************)
(* get_daily_summary as a function of the totals and the configuration.    *)
(* The totals are drawn from what daily_stats can hold: any set of tracked *)
(* sites, each with a total that may be zero (a session closed at the      *)
(* clock reading it was opened at) or negative (a clock set back).  The    *)
(* configurations are those load_config returns, which checks no value: a  *)
(* daily_limit of 0 among them.                                            *)
(***************************************************************************)
LoadableConfigs ==
    ConfigSet \cup
    { [s \in Sites |-> IF s = "youtube.com" THEN SiteConfig(0, 2, FALSE)
                                             ELSE SiteConfig(14, 3, FALSE)] }

StatsInputs == UNION { [D -> (0 - MaxTime) .. MaxTime] : D \in SUBSET Sites }

InitSummary ==
    /\ tracked_sites \in LoadableConfigs
    /\ now \in 0 .. MaxTime
    /\ daily_stats \in StatsInputs
    /\ last_reset = Date(now)
    /\ current_site = NoSite
    /\ session_start = NoTime
    /\ last_nudge_time = NoTime
    /\ running = TRUE
    /\ app = "tray"
    /\ nudge = NoNudge
    /\ summary = NoSummary
    /\ notified = "none"
    /\ obs = NoObs
    /\ sess_nudge = NoTime
    /\ seen_date = Date(now)
    /\ closed_sum = ZeroSum
    /\ unclosed = 0
    /\ at_stop = NoStop
    /\ jumps = 0
    /\ probe_failed = FALSE
    /\ pc = "idle"
    /\ detected_site = NoSite
    /\ duration = 0
    /\ ui_pc = "idle"
    /\ it_left = {}
    /\ it_keys = {}
    /\ it_live = TRUE
    /\ it_dict = EmptyStats
    /\ polls = 0
    /\ clicks = 0
    /\ torn = FALSE

NextSummary ==
    \/ ShowStats
    \/ QuitApp

SpecSummary == InitSummary /\ [][NextSummary]_vars

(***************************************************************************)
(* Startup from a config.json.  load_config returns the file's             *)
(* tracked_sites as json.load gives them, or writes and returns the        *)
(* default when there is no file; no value is looked at.  The drivers then *)
(* run exactly as in Next.                                                 *)
(***************************************************************************)
\* os.path.exists(self.config_path) is false
NoFile == [exists |-> FALSE, tracked_sites |-> EmptyStats]

\* a config.json holding the given tracked_sites
ConfigFile(sites) == [exists |-> TRUE, tracked_sites |-> sites]

\* the default of lines 45-73, scaled to the model's clock
DefaultConfig ==
    [s \in Sites |-> IF s = "youtube.com" THEN SiteConfig(3, 2, FALSE)
                                           ELSE SiteConfig(14, 3, FALSE)]

\* what the file may hold: the configurations above, one with a daily_limit
\* of 0, one with a nudge_interval of 0, or no file at all
ConfigFiles ==
    { ConfigFile(sites) : sites \in LoadableConfigs } \cup
    { ConfigFile([s \in Sites |-> IF s = "youtube.com" THEN SiteConfig(3, 2, FALSE)
                                                         ELSE SiteConfig(14, 0, FALSE)]),
      NoFile }

\* load_config
LoadConfig(config_file) ==
    IF config_file.exists THEN config_file.tracked_sites ELSE DefaultConfig

InitConfig ==
    /\ tracked_sites \in {LoadConfig(config_file) : config_file \in ConfigFiles}
    /\ now = 0
    /\ current_site = NoSite
    /\ session_start = NoTime
    /\ last_nudge_time = NoTime
    /\ daily_stats = EmptyStats
    /\ last_reset = Date(now)
    /\ running = FALSE
    /\ app = "init"
    /\ nudge = NoNudge
    /\ summary = NoSummary
    /\ notified = "none"
    /\ obs = NoObs
    /\ sess_nudge = NoTime
    /\ seen_date = Date(now)
    /\ closed_sum = ZeroSum
    /\ unclosed = 0
    /\ at_stop = NoStop
    /\ jumps = 0
    /\ probe_failed = FALSE
    /\ pc = "idle"
    /\ detected_site = NoSite
    /\ duration = 0
    /\ ui_pc = "idle"
    /\ it_left = {}
    /\ it_keys = {}
    /\ it_live = TRUE
    /\ it_dict = EmptyStats
    /\ polls = 0
    /\ clicks = 0
    /\ torn = FALSE

SpecConfig == InitConfig /\ [][Next]_vars

(***************************************************************************)
(* The tray application as two threads.  monitor_loop runs update_session  *)
(* on a daemon thread while the menu handlers show_stats and quit_app run  *)
(* on the UI thread; no lock is taken anywhere in tray_app.py or           *)
(* monitor.py, so the statements of the two interleave freely.  The        *)
(* history variables of the single-threaded specification are not          *)
(* maintained here.                                                        *)
(***************************************************************************)
ui_vars == <<ui_pc, it_left, it_keys, it_live, it_dict, torn, summary>>
shared_vars == <<current_site, session_start, last_nudge_time, daily_stats, last_reset>>

\* Positions of monitor_loop at which update_session has written one part of
\* an update of the totals and not yet the other.
MidUpdate == {"reset_date", "end_add"}

TickT ==
    /\ app \in {"init", "tray"}
    /\ now < MaxTime
    /\ now' = now + 1
    /\ UNCHANGED <<tracked_sites, running, app, nudge, notified, pc, detected_site,
                   duration>>
    /\ UNCHANGED <<shared_vars, ui_vars, hist_vars, polls, clicks>>

TrayRunT ==
    /\ TrayRun

PollStep(from, to) ==
    /\ app = "tray"
    /\ pc = from
    /\ pc' = to
    /\ UNCHANGED <<tracked_sites, now, running, app, ui_pc, it_left, it_keys, torn, summary,
                   notified, clicks>>
    /\ UNCHANGED hist_vars

\* (a slip: while True, the flag is never looked at)
MonitorLoop_While_Forever ==
    /\ PollStep("idle", "detect")
    /\ polls < MaxPolls
    /\ polls' = polls + 1
    /\ UNCHANGED <<shared_vars, nudge, detected_site, duration, it_live, it_dict>>

\* tray_app.py line 36: while self.running
MonitorLoop_While ==
    /\ PollStep("idle", IF running THEN "detect" ELSE "exited")
    /\ running => polls < MaxPolls
    /\ polls' = IF running THEN polls + 1 ELSE polls
    /\ UNCHANGED <<shared_vars, nudge, detected_site, duration, it_live, it_dict>>

\* monitor.py line 112
UpdateSession_Detect ==
    /\ UNCHANGED polls
    /\ PollStep("detect", "date_check")
    /\ \E probe_ok \in BOOLEAN, title \in Titles :
          detected_site' = DetectCurrentSite(GetActiveWindowTitle(probe_ok, title))
    /\ UNCHANGED <<shared_vars, nudge, duration, it_live, it_dict>>

\* line 115
UpdateSession_DateCheck ==
    /\ UNCHANGED polls
    /\ PollStep("date_check", IF Date(now) # last_reset THEN "reset_stats" ELSE "branch")
    /\ UNCHANGED <<shared_vars, nudge, detected_site, duration, it_live, it_dict>>

\* line 116: self.daily_stats = {} binds a new dict; a for loop over the old
\* one keeps the old one
UpdateSession_ResetStats ==
    /\ UNCHANGED polls
    /\ PollStep("reset_stats", "reset_date")
    /\ daily_stats' = EmptyStats
    /\ IF ui_pc \in {"stats_iter", "quit_iter"} /\ it_live
       THEN it_live' = FALSE /\ it_dict' = daily_stats
       ELSE UNCHANGED <<it_live, it_dict>>
    /\ UNCHANGED <<current_site, session_start, last_nudge_time, last_reset,
                   nudge, detected_site, duration>>

\* line 117
UpdateSession_ResetDate ==
    /\ UNCHANGED polls
    /\ PollStep("reset_date", "branch")
    /\ last_reset' = Date(now)
    /\ UNCHANGED <<current_site, session_start, last_nudge_time, daily_stats,
                   nudge, detected_site, duration, it_live, it_dict>>

\* lines 120, 126, 134: which branch is taken
UpdateSession_Branch ==
    /\ UNCHANGED polls
    /\ PollStep("branch",
                IF detected_site # NoSite /\ current_site = NoSite THEN "set_site"
                ELSE IF current_site # NoSite /\ detected_site # current_site
                THEN "end_duration"
                ELSE IF current_site # NoSite THEN "check"
                ELSE "return_none")
    /\ UNCHANGED <<shared_vars, nudge, detected_site, duration, it_live, it_dict>>

\* lines 121 and 129
UpdateSession_SetSite ==
    /\ UNCHANGED polls
    /\ PollStep("set_site", "set_start")
    /\ current_site' = detected_site
    /\ UNCHANGED <<session_start, last_nudge_time, daily_stats, last_reset,
                   nudge, detected_site, duration, it_live, it_dict>>

\* lines 122 and 130
UpdateSession_SetStart ==
    /\ UNCHANGED polls
    /\ PollStep("set_start", "return_none")
    /\ session_start' = now
    /\ UNCHANGED <<current_site, last_nudge_time, daily_stats, last_reset,
                   nudge, detected_site, duration, it_live, it_dict>>

\* _end_session, lines 141-142
EndSession_Duration ==
    /\ UNCHANGED polls
    /\ PollStep("end_duration", "end_create")
    /\ duration' = MinutesBetween(now, session_start)
    /\ UNCHANGED <<shared_vars, nudge, detected_site, it_live, it_dict>>

\* lines 144-145
EndSession_CreateEntry ==
    /\ UNCHANGED polls
    /\ PollStep("end_create", "end_add")
    /\ daily_stats' = IF current_site \notin DOMAIN daily_stats
                      THEN AddDuration(daily_stats, current_site, 0)
                      ELSE daily_stats
    /\ UNCHANGED <<current_site, session_start, last_nudge_time, last_reset,
                   nudge, detected_site, duration, it_live, it_dict>>

\* line 147
EndSession_Add ==
    /\ UNCHANGED polls
    /\ PollStep("end_add", "end_clear_site")
    /\ daily_stats' = AddDuration(daily_stats, current_site, duration)
    /\ UNCHANGED <<current_site, session_start, last_nudge_time, last_reset,
                   nudge, detected_site, duration, it_live, it_dict>>

\* line 152
EndSession_ClearSite ==
    /\ UNCHANGED polls
    /\ PollStep("end_clear_site", "end_clear_start")
    /\ current_site' = NoSite
    /\ UNCHANGED <<session_start, last_nudge_time, daily_stats, last_reset,
                   nudge, detected_site, duration, it_live, it_dict>>

\* line 153, then line 128
EndSession_ClearStart ==
    /\ UNCHANGED polls
    /\ PollStep("end_clear_start", IF detected_site # NoSite THEN "set_site" ELSE "return_none")
    /\ session_start' = NoTime
    /\ UNCHANGED <<current_site, last_nudge_time, daily_stats, last_reset,
                   nudge, detected_site, duration, it_live, it_dict>>

\* line 135: return self.check_for_nudge(); only this thread writes what it reads
\* and writes apart from daily_stats, which it reads once
CheckForNudge_Call ==
    /\ UNCHANGED polls
    /\ PollStep("check", "send")
    /\ LET event == NudgeEvent(current_site, session_start, last_nudge_time,
                               daily_stats, now)
       IN  /\ nudge' = event
           /\ last_nudge_time' = NudgeTimeAfter(event, last_nudge_time, now)
    /\ UNCHANGED <<current_site, session_start, daily_stats, last_reset,
                   detected_site, duration, it_live, it_dict>>

\* line 137: return None
UpdateSession_ReturnNone ==
    /\ UNCHANGED polls
    /\ PollStep("return_none", "send")
    /\ nudge' = NoNudge
    /\ UNCHANGED <<shared_vars, detected_site, duration, it_live, it_dict>>

\* tray_app.py lines 40-43: send_nudge and time.sleep(2)
MonitorLoop_Send ==
    /\ UNCHANGED polls
    /\ \E notify_ok \in BOOLEAN :
          PollStep("send", MonitorLoopAfter(SendNudge(nudge, notify_ok)))
    /\ nudge' = NoNudge
    /\ detected_site' = NoSite
    /\ duration' = 0
    /\ UNCHANGED <<shared_vars, it_live, it_dict>>

UiStep(from, to) ==
    /\ app = "tray"
    /\ ui_pc = from
    /\ ui_pc' = to
    /\ UNCHANGED <<tracked_sites, now, nudge, notified, pc, detected_site, duration, polls>>
    /\ UNCHANGED <<shared_vars, hist_vars>>

\* get_daily_summary, lines 218-223: the summary is created and the for loop
\* takes self.daily_stats.items()
GetDailySummary_Begin(from, to) ==
    /\ UiStep(from, to)
    /\ summary' = [date |-> Date(now), sites |-> EmptyStats]
    /\ it_left' = DOMAIN daily_stats
    /\ it_keys' = DOMAIN daily_stats
    /\ it_live' = TRUE
    /\ it_dict' = EmptyStats
    /\ torn' = (pc \in MidUpdate)
    /\ clicks < MaxClicks
    /\ clicks' = clicks + 1
    /\ UNCHANGED <<running, app>>

IteratedDict == IF it_live THEN daily_stats ELSE it_dict

\* One turn of the for loop of lines 223-230.  The dict iterator raises
\* RuntimeError (dictionary changed size during iteration) when the dict it
\* iterates has gained a key since the loop began.
GetDailySummary_Next(from, to) ==
    /\ ui_pc = from
    /\ IF DOMAIN IteratedDict # it_keys
       THEN /\ UiStep(from, "idle")
            /\ summary' = NoSummary
            /\ it_left' = {}
            /\ it_keys' = {}
            /\ torn' = FALSE
            /\ UNCHANGED <<it_live, it_dict, running, app, clicks>>
       ELSE IF it_left = {}
       THEN /\ UiStep(from, to)
            /\ UNCHANGED <<summary, it_left, it_keys, it_live, it_dict, torn, running, app, clicks>>
       ELSE /\ UiStep(from, from)
            /\ \E s \in it_left :
                  /\ it_left' = it_left \ {s}
                  /\ summary' = [summary EXCEPT !.sites =
                        [k \in DOMAIN @ \cup {s} |->
                           IF k = s
                           THEN GetDailySummary(IteratedDict, now).sites[s]
                           ELSE @[k]]]
            /\ torn' = (torn \/ pc \in MidUpdate)
            /\ UNCHANGED <<it_keys, it_live, it_dict, running, app, clicks>>

\* send_daily_summary: the handler is done with the summary
SendDailySummary(from, to) ==
    /\ UiStep(from, to)
    /\ summary' = NoSummary
    /\ it_left' = {}
    /\ it_keys' = {}
    /\ it_live' = TRUE
    /\ it_dict' = EmptyStats
    /\ torn' = FALSE
    /\ UNCHANGED <<running, app, clicks>>

\* show_stats, lines 50-51
ShowStats_GetSummary == GetDailySummary_Begin("idle", "stats_iter")
ShowStats_Loop == GetDailySummary_Next("stats_iter", "stats_send")
ShowStats_Send == SendDailySummary("stats_send", "idle")

\* quit_app, lines 56-60
QuitApp_GetSummary == GetDailySummary_Begin("idle", "quit_iter")
QuitApp_Loop == GetDailySummary_Next("quit_iter", "quit_send")
QuitApp_Send == SendDailySummary("quit_send", "quit_flag")

\* line 59
QuitApp_ClearRunning ==
    /\ UiStep("quit_flag", "quit_stop")
    /\ running' = FALSE
    /\ UNCHANGED <<app, summary, it_left, it_keys, it_live, it_dict, torn, clicks>>

\* line 60: icon.stop() ends icon.run(); the process exits and takes the daemon
\* thread with it
QuitApp_IconStop ==
    /\ app = "tray"
    /\ ui_pc = "quit_stop"
    /\ ui_pc' = "idle"
    /\ app' = "stopped"
    /\ UNCHANGED <<tracked_sites, now, running, nudge, notified, pc, detected_site,
                   duration>>
    /\ UNCHANGED <<shared_vars, hist_vars, polls, clicks>>
    /\ UNCHANGED <<summary, it_left, it_keys, it_live, it_dict, torn>>

NextThreads ==
    \/ TickT
    \/ TrayRunT
    \/ MonitorLoop_While
    \/ UpdateSession_Detect
    \/ UpdateSession_DateCheck
    \/ UpdateSession_ResetStats
    \/ UpdateSession_ResetDate
    \/ UpdateSession_Branch
    \/ UpdateSession_SetSite
    \/ UpdateSession_SetStart
    \/ EndSession_Duration
    \/ EndSession_CreateEntry
    \/ EndSession_Add
    \/ EndSession_ClearSite
    \/ EndSession_ClearStart
    \/ CheckForNudge_Call
    \/ UpdateSession_ReturnNone
    \/ MonitorLoop_Send
    \/ ShowStats_GetSummary
    \/ ShowStats_Loop
    \/ ShowStats_Send
    \/ QuitApp_GetSummary
    \/ QuitApp_Loop
    \/ QuitApp_Send
    \/ QuitApp_ClearRunning
    \/ QuitApp_IconStop

SpecThreads == Init /\ [][NextThreads]_vars

(***************************************************************************)
(* Properties.                                                             *)
(***************************************************************************)
IntervalOf(site) == tracked_sites[site].nudge_interval
LimitOf(site) == tracked_sites[site].daily_limit

\* The nudge gate as the session sees it: the session has lasted an interval
\* and was not nudged within the last interval.
DueInSession ==
    /\ obs.minutes >= IntervalOf(obs.site)
    /\ (obs.prev = NoTime \/ MinutesBetween(now, obs.prev) >= IntervalOf(obs.site))

SummaryTime(sm, site) ==
    IF site \in DOMAIN sm.sites THEN sm.sites[site].time_spent ELSE 0

\* C1: every opened session is closed exactly once, at the latest when the
\* program is stopped: at most one session is unclosed at any time and none
\* is left unclosed once the application has stopped.
C1_EveryOpenedSessionClosed ==
    /\ unclosed \in {0, 1}
    /\ app = "stopped" => unclosed = 0

\* C2: a NUDGE is produced only at a poll where the session has lasted at
\* least nudge_interval minutes, and at least nudge_interval minutes after the
\* previous NUDGE of the same session.
C2_NudgeSpacing ==
    nudge.type = "NUDGE" =>
        /\ obs.kind = "ongoing"
        /\ obs.minutes >= IntervalOf(nudge.site)
        /\ obs.prev # NoTime => MinutesBetween(now, obs.prev) >= IntervalOf(nudge.site)

\* a second NUDGE within one session
C2_Witness ==
    /\ nudge.type = "NUDGE"
    /\ obs.prev # NoTime

\* C3: at a poll of an ongoing session where BLOCK does not apply, a NUDGE
\* fires whenever the session has lasted nudge_interval minutes and either has
\* not been nudged yet or was last nudged at least nudge_interval minutes ago
\* (a nudge of an earlier session does not count); a first nudge with more
\* than 10 minutes remaining has severity INFO.
C3_NudgeFiresWhenDue ==
    (/\ obs.kind = "ongoing"
     /\ ~ IsBlock(obs.stored + obs.minutes, tracked_sites[obs.site])
     /\ DueInSession)
    => /\ nudge.type = "NUDGE"
       /\ LimitOf(obs.site) - (obs.stored + obs.minutes) > LowTimeThreshold
             => nudge.severity = "info"

\* C4: the stored total of every site is the sum of the durations of the
\* sessions on it closed since the last rollover, and the total a nudge or
\* block decision reports is that sum plus the open session's elapsed time.
C4_TotalsAreSumOfClosed ==
    /\ \A s \in Sites : StatsGet(daily_stats, s) = closed_sum[s]
    /\ nudge.type # "NONE" =>
          nudge.total_today = closed_sum[nudge.site] + MinutesBetween(now, session_start)

\* a nudge decided on a stored total and an elapsed time that are both nonzero
C4_Witness ==
    /\ nudge.type = "NUDGE"
    /\ closed_sum[nudge.site] > 0
    /\ obs.minutes > 0
    /\ nudge.total_today = closed_sum[nudge.site] + obs.minutes

\* C5: once the calendar date differs from the accumulator's stored date, a
\* summary that is read shows no minutes accumulated on the stored date.
C5_NoStaleTotalsVisible ==
    (summary # NoSummary /\ summary.date # last_reset)
    => \A s \in DOMAIN summary.sites : summary.sites[s].time_spent = 0

\* C6: the final summary emitted on a stop request includes the time of the
\* session that was open when the stop was requested.
C6_FinalSummaryIncludesOpenSession ==
    (app = "stopped" /\ at_stop.site # NoSite /\ Date(now) = last_reset)
    => SummaryTime(summary, at_stop.site) = at_stop.stored + at_stop.elapsed

C8_TotalsNonNegative ==
    \A s \in DOMAIN daily_stats : daily_stats[s] >= 0

\* C9: when a poll has just opened a session, last_nudge_time is absent.
C9_NewSessionHasNoNudge ==
    obs.kind \in {"open", "switch"} => last_nudge_time = NoTime

\* C10: the summary handlers read the totals in mutual exclusion with the
\* polling thread: no summary has read the totals while update_session had
\* written one part of an update and not yet the other (the totals reset and
\* the stored date still the old day, or a site's entry in place and the
\* session's duration not yet added).
C10_SummaryNeverReadsMidUpdate ==
    ~ torn

\* C11: in every state between polls at most one session is open:
\* current_site and session_start are both absent or both present, the site is
\* a tracked one, and exactly the sessions opened but not closed number one
\* when a session is open and none otherwise.
C11_AtMostOneSession ==
    /\ (current_site = NoSite) <=> (session_start = NoTime)
    /\ current_site \in Sites \cup {NoSite}
    /\ session_start \in (0 .. MaxTime) \cup {NoTime}
    /\ unclosed = IF current_site = NoSite THEN 0 ELSE 1

\* a poll has closed one session and opened the next
C11_Witness ==
    /\ obs.kind = "switch"
    /\ current_site # NoSite
    /\ session_start # NoTime

\* C12: a poll that detects tracked site B while a session on another site A
\* is open closes A's session in that same step, adding now - session_start
\* to A's total (counted from zero when the poll is the first of a new date),
\* and opens the session on B with session_start = now; one session was open
\* before the step and one is open after it.
C12_SwitchInOnePoll ==
    [][ (current_site # NoSite /\ current_site' # NoSite
                               /\ current_site' # current_site)
        => /\ now' = now
           /\ session_start' = now
           /\ current_site \in DOMAIN daily_stats'
           /\ daily_stats'[current_site] =
                 (IF Date(now) # last_reset THEN 0
                  ELSE StatsGet(daily_stats, current_site)) + (now - session_start)
           /\ unclosed = 1 /\ unclosed' = 1 ]_vars

\* a switch has closed a session that lasted a while on a site that had
\* minutes already
C12_Witness ==
    /\ obs.kind = "switch"
    /\ obs.minutes > 0
    /\ obs.stored > 0
    /\ session_start = now

\* C13: a step that computes the daily summary (show_stats, quit_app, Ctrl+C)
\* changes none of current_site, session_start, last_nudge_time, the totals,
\* the reset date or the configuration; and when a summary was computed just
\* before it, with no poll and no clock change in between, the second summary
\* equals the first.
C13_SummaryIsPureProjection ==
    [][ summary' # NoSummary
        => /\ UNCHANGED <<tracked_sites, current_site, session_start,
                          last_nudge_time, daily_stats, last_reset>>
           /\ summary # NoSummary => summary' = summary ]_vars

\* a summary with entries was computed while a nudged session was open
C13_Witness ==
    /\ summary # NoSummary
    /\ DOMAIN summary.sites # {}
    /\ current_site # NoSite
    /\ last_nudge_time # NoTime

\* C14: when the delivery of a poll's event fails (send_notification falls back
\* to the console), the polling loop is still at the top of an iteration with
\* its condition true, so the next poll runs, and current_site, session_start
\* and the site's total are what update_session left: the ongoing session the
\* poll observed, with its start and its stored total untouched.
C14_SinkFailureLeavesLoopAndState ==
    (notified = "console")
    => /\ nudge # NoNudge
       /\ pc = "idle"
       /\ Polling
       /\ obs.kind = "ongoing"
       /\ current_site = obs.site
       /\ session_start # NoTime
       /\ MinutesBetween(now, session_start) = obs.minutes
       /\ StatsGet(daily_stats, obs.site) = obs.stored
       /\ last_reset = Date(now)

\* a NUDGE of a session on a site with minutes stored was not delivered
C14_Witness ==
    /\ notified = "console"
    /\ nudge.type = "NUDGE"
    /\ obs.stored > 0

\* C20: a poll in which the window title could not be read is a poll with no
\* site detected, raises no error (the loop goes on) and changes no session:
\* it is the poll of an idle tracker, closing and opening nothing.
C20_DetectionFailureChangesNoSession ==
    probe_failed => /\ pc = "idle"
                    /\ obs.kind = "idle"

\* C15: once quit_app has set running to false, the polling thread begins no
\* further poll (the poll in flight, if any, may run to its end), and once
\* the thread has left its loop it stays out of it.
C15_NoPollAfterStop ==
    [][ /\ (app # "init" /\ ~ running) => polls' = polls
        /\ pc = "exited" => pc' = "exited" ]_vars

\* the stop flag is down while a poll is still in flight
C15_Witness ==
    /\ app = "tray"
    /\ ~ running
    /\ pc \notin {"idle", "exited"}

\* C16 as stated: a poll that produces a BLOCK event modifies none of
\* last_nudge_time, current_site, session_start or any site's total.
C16_BlockPollChangesNothing ==
    [][ nudge'.type = "BLOCK"
        => /\ UNCHANGED <<last_nudge_time, current_site, session_start>>
           /\ \A s \in Sites : StatsGet(daily_stats', s) = StatsGet(daily_stats, s) ]_vars

\* C16, amended: a poll that produces a BLOCK event modifies none of
\* last_nudge_time, current_site and session_start; it leaves the totals as
\* they are when the date is the stored one, and when it is the first poll to
\* see a new date it has emptied the totals and adopted the date before it
\* decided.
C16_BlockLeavesNudgeTime ==
    [][ nudge'.type = "BLOCK"
        => /\ UNCHANGED <<last_nudge_time, current_site, session_start>>
           /\ Date(now) = last_reset => UNCHANGED <<daily_stats, last_reset>>
           /\ Date(now) # last_reset => /\ daily_stats' = EmptyStats
                                        /\ last_reset' = Date(now) ]_vars

\* a BLOCK came to a session that had been nudged before
C16_Witness ==
    /\ nudge.type = "BLOCK"
    /\ last_nudge_time # NoTime
    /\ sess_nudge # NoTime

\* the minutes left to the site of the event in hand, from what the poll saw
TimeRemainingSeen == LimitOf(nudge.site) - (obs.stored + obs.minutes)

\* C17: every NUDGE comes from the poll of an ongoing session and its
\* severity follows from time_remaining = daily_limit - total_today at that
\* poll: warning with the "exceeded" text when time_remaining <= 0, warning
\* with the "running low" text when 0 < time_remaining <= 10, info with the
\* plain reminder when time_remaining > 10.
C17_SeverityByTimeRemaining ==
    nudge.type = "NUDGE"
    => /\ obs.kind = "ongoing" /\ obs.site = nudge.site
       /\ nudge.total_today = obs.stored + obs.minutes
       /\ nudge.limit = LimitOf(nudge.site)
       /\ TimeRemainingSeen <= 0
            => nudge.severity = "warning" /\ nudge.message = "exceeded"
       /\ (0 < TimeRemainingSeen /\ TimeRemainingSeen <= 10)
            => nudge.severity = "warning" /\ nudge.message = "running_low"
       /\ TimeRemainingSeen > 10
            => nudge.severity = "info" /\ nudge.message = "reminder"

\* a NUDGE fired with exactly ten minutes left
C17_Witness ==
    /\ nudge.type = "NUDGE"
    /\ TimeRemainingSeen = 10

\* C18: when a session that began on another date is closed, the poll that
\* closes it has adopted the current date and, if it is the first to see that
\* date, emptied the totals before adding: the session's whole duration is
\* added to the current date's total of its site, and after a reset in that
\* poll the totals hold that one entry and nothing of the day before.
C18_MidnightSessionGoesToNewDay ==
    [][ (current_site # NoSite /\ current_site' # current_site
                               /\ Date(session_start) # Date(now))
        => /\ last_reset' = Date(now)
           /\ current_site \in DOMAIN daily_stats'
           /\ Date(now) # last_reset
                => /\ DOMAIN daily_stats' = {current_site}
                   /\ daily_stats'[current_site] = now - session_start
           /\ Date(now) = last_reset
                => /\ daily_stats'[current_site] =
                         StatsGet(daily_stats, current_site) + (now - session_start)
                   /\ \A s \in DOMAIN daily_stats \ {current_site} :
                         daily_stats'[s] = daily_stats[s] ]_vars

\* a session that ran over midnight was closed, the clock never having been
\* set back, and the new day's total is the session's whole duration
C18_Witness ==
    /\ obs.kind \in {"close", "switch"}
    /\ jumps = 0
    /\ obs.minutes > 1
    /\ Date(now - obs.minutes) # Date(now)
    /\ last_reset = Date(now)
    /\ StatsGet(daily_stats, obs.site) = obs.minutes

\* what C19 says of one entry of the summary in hand
EntryAsClaimed(s) ==
    LET entry == summary.sites[s]
        limit == tracked_sites[s].daily_limit
    IN  /\ entry.time_spent = daily_stats[s]
        /\ entry.limit = limit
        /\ entry.over_limit <=> entry.time_spent > limit
        /\ limit > 0 => /\ entry.percentage[2] # 0
                        /\ entry.percentage[1] * limit
                              = entry.time_spent * 100 * entry.percentage[2]
        /\ limit = 0 => entry.percentage[1] = 0

C21_NoPollWithNonPositiveConfig ==
    obs.kind # "none"
    => \A s \in Sites : /\ tracked_sites[s].daily_limit > 0
                        /\ tracked_sites[s].nudge_interval > 0

\* C22 as stated: a poll that detects no site while no session is open, on
\* the stored date, changes none of current_site, session_start,
\* last_nudge_time and the totals and produces no event; and a poll of an
\* ongoing session changes none of current_site, session_start and the
\* totals (at most last_nudge_time).
C22_QuietPollsChangeNothing ==
    [][ /\ (obs'.kind = "idle" /\ Date(now) = last_reset)
            => /\ UNCHANGED <<current_site, session_start, last_nudge_time>>
               /\ \A s \in Sites : StatsGet(daily_stats', s) = StatsGet(daily_stats, s)
               /\ nudge' = NoNudge
        /\ obs'.kind = "ongoing"
            => /\ UNCHANGED <<current_site, session_start>>
               /\ \A s \in Sites : StatsGet(daily_stats', s) = StatsGet(daily_stats, s)
      ]_vars

\* C22, amended: a poll that detects no site while no session is open, on
\* the stored date, changes none of current_site, session_start,
\* last_nudge_time, the totals and the stored date, and produces and delivers
\* no event; a poll of an ongoing session changes neither current_site nor
\* session_start, moves last_nudge_time only to now and only with a NUDGE,
\* and leaves the totals and the stored date as they are on the stored date,
\* while the first poll to see a new date empties the totals and adopts it.
C22_QuietPollsChangeOnlyNudgeTimeAndRollover ==
    [][ /\ (obs'.kind = "idle" /\ Date(now) = last_reset)
            => /\ UNCHANGED <<current_site, session_start, last_nudge_time,
                              daily_stats, last_reset>>
               /\ nudge' = NoNudge
               /\ notified' = "none"
        /\ obs'.kind = "ongoing"
            => /\ UNCHANGED <<current_site, session_start>>
               /\ last_nudge_time' # last_nudge_time
                    => nudge'.type = "NUDGE" /\ last_nudge_time' = now
               /\ Date(now) = last_reset => UNCHANGED <<daily_stats, last_reset>>
               /\ Date(now) # last_reset => /\ daily_stats' = EmptyStats
                                            /\ last_reset' = Date(now)
      ]_vars

\* a poll found nothing in front and nothing open, with totals and a last
\* nudge in store from a session of the same date
C22_Witness ==
    /\ obs.kind = "idle"
    /\ last_nudge_time # NoTime
    /\ Date(last_nudge_time) = Date(now)
    /\ \E s \in DOMAIN daily_stats : daily_stats[s] > 0
====
